---------------------------- MODULE Spec2Model ----------------------------
(***************************************************************************)
(* ScanPass: visual second-factor authentication.                          *)
(*                                                                         *)
(* The model covers the FastAPI handlers of backend/main.py, the SQLite    *)
(* table of backend/models.py, the motion classifiers of                   *)
(* backend/liveness.py, the embedding and similarity functions of          *)
(* backend/embedding_engine.py and the challenge catalogue of              *)
(* backend/challenges.py.                                                  *)
(*                                                                         *)
(* Numbers.  A Python float is modelled as an exact number on a grid of    *)
(* 1/10000 ("ticks"): 1.5 is 15000, 0.3 is 3000.  A mean of n grid values  *)
(* is kept as the pair [num, den] so that comparisons are exact;           *)
(* round(x, k) and the ':.kf' formats are modelled by RoundHalfEven.       *)
(*                                                                         *)
(* External primitives.  OpenCV's decoder and Farneback flow, the          *)
(* MobileNetV2 extractor and scikit-learn's cosine_similarity are not part *)
(* of the repository.  A video is a record of what the decoder reports, a  *)
(* frame carries the motion profile and the object it shows, a motion      *)
(* field is represented by the per-field means the classifiers take of it, *)
(* and an embedding is an integer vector.                                  *)
(*                                                                         *)
(* A call that may raise returns Ok(value) or Raise(exception, message).   *)
(***************************************************************************)
EXTENDS Integers, Sequences, FiniteSets, TLC

(***************************************************************************)
(* Arithmetic helpers                                                      *)
(***************************************************************************)
Abs(x) == IF x < 0 THEN -x ELSE x

\* Python's max(a, b): b only when it is strictly greater.
Max2(a, b) == IF b > a THEN b ELSE a

\* The integer nearest to num/den (den > 0), an exact tie going to the even
\* neighbour: Python's round() and '%.kf' on a value they can represent.
RoundHalfEven(num, den) ==
    LET q == num \div den
        r == num % den
    IN  IF 2 * r < den THEN q
        ELSE IF 2 * r > den THEN q + 1
        ELSE IF q % 2 = 0 THEN q ELSE q + 1

\* round(x, 3) of x = num/den ticks, in ticks.
Round3(num, den) == 10 * RoundHalfEven(num, 10 * den)

RECURSIVE SumSeq(_)
SumSeq(s) == IF s = <<>> THEN 0 ELSE Head(s) + SumSeq(Tail(s))

(***************************************************************************)
(* Thresholds                                                              *)
(***************************************************************************)
LIVENESS_THRESHOLD == 15000
SIMILARITY_THRESHOLD == 6000
DIRECTION_THRESHOLD == 3000
N_FRAMES == 10

(***************************************************************************)
(* challenges.py                                                           *)
(***************************************************************************)
CHALLENGES ==
    << [id |-> "rotate_clockwise", expected_direction |-> "rotation"],
       [id |-> "move_closer",      expected_direction |-> "zoom_in"],
       [id |-> "tilt_left",        expected_direction |-> "left"],
       [id |-> "move_away",        expected_direction |-> "zoom_out"],
       [id |-> "tilt_right",       expected_direction |-> "right"] >>

None == [none |-> TRUE]

\* The first catalogue entry with this id, or None.
get_challenge_by_id(challenge_id) ==
    LET hits == {i \in 1..Len(CHALLENGES) : CHALLENGES[i].id = challenge_id}
    IN  IF hits = {} THEN None
        ELSE CHALLENGES[CHOOSE i \in hits : \A j \in hits : i <= j]

(***************************************************************************)
(* Motion fields (the output of cv2.calcOpticalFlowFarneback)              *)
(*   mag: mean displacement magnitude      dx, dy: mean components         *)
(*   rad: mean projection on the unit radial vector from the centre        *)
(*   tan: mean projection on the unit tangential vector                    *)
(***************************************************************************)
ZeroField == [mag |-> 0, dx |-> 0, dy |-> 0, rad |-> 0, tan |-> 0]

MotionProfiles ==
    { "static", "right", "lenient", "tie", "edge", "weak", "spin" }

FieldOf(motion) ==
    CASE motion = "static"  -> ZeroField
      [] motion = "right"   -> [mag |-> 20000, dx |-> 20000, dy |-> 0, rad |-> 0, tan |-> 0]
      [] motion = "lenient" -> [mag |-> 16000, dx |-> 5000, dy |-> 0, rad |-> 0, tan |-> 500]
      [] motion = "tie"     -> [mag |-> 15000, dx |-> -5000, dy |-> 0, rad |-> -5000, tan |-> 1000]
      [] motion = "edge"    -> [mag |-> 14996, dx |-> 3004, dy |-> 0, rad |-> 0, tan |-> 0]
      [] motion = "weak"    -> [mag |-> 15000, dx |-> -3000, dy |-> 200, rad |-> 3000, tan |-> -3000]
      [] motion = "spin"    -> [mag |-> 30000, dx |-> 0, dy |-> 0, rad |-> -100, tan |-> -9000]

\* Farneback flow between two frames: none between two copies of one frame.
DenseFlow(a, b) == IF a.idx = b.idx THEN ZeroField ELSE FieldOf(a.motion)

\* One flow per consecutive pair of frames.
compute_optical_flow(frames) ==
    [i \in 1..(IF Len(frames) = 0 THEN 0 ELSE Len(frames) - 1) |->
        DenseFlow(frames[i], frames[i + 1])] \o << >>

\* avg_magnitude as [num, den]: the mean of the per-field mean magnitudes.
compute_motion_magnitude(flows) ==
    IF Len(flows) = 0 THEN [num |-> 0, den |-> 1]
    ELSE [num |-> SumSeq([i \in 1..Len(flows) |-> flows[i].mag]), den |-> Len(flows)]

\* The four means over the sequence; all four share the denominator n.
detect_dominant_direction(flows) ==
    LET n == IF Len(flows) > 0 THEN Len(flows) ELSE 1
    IN  [horizontal |-> SumSeq([i \in 1..Len(flows) |-> flows[i].dx]),
         vertical   |-> SumSeq([i \in 1..Len(flows) |-> flows[i].dy]),
         expansion  |-> SumSeq([i \in 1..Len(flows) |-> flows[i].rad]),
         rotation   |-> SumSeq([i \in 1..Len(flows) |-> flows[i].tan]),
         n          |-> n]

(***************************************************************************)
(* liveness.py: check_liveness                                             *)
(* flow_calls counts the calls of compute_optical_flow the check made; it  *)
(* is bookkeeping of the model, not a key of the returned dict.            *)
(***************************************************************************)
\* Variant: the threshold excluded (a mean equal to min_motion is not live).
check_liveness_exclusive(frames, min_motion) ==
    IF Len(frames) < 2
    THEN [is_live |-> FALSE, motion_score |-> 0,
          reason |-> [text |-> "Insufficient frames for motion analysis"],
          flow_calls |-> 0]
    ELSE LET flows   == compute_optical_flow(frames)
             avg_mag == compute_motion_magnitude(flows)
             score   == Round3(avg_mag.num, avg_mag.den)
         IN  [is_live |-> avg_mag.num > min_motion * avg_mag.den,
              motion_score |-> score,
              reason |-> [text |-> IF avg_mag.num > min_motion * avg_mag.den
                                   THEN "Live motion detected"
                                   ELSE "Static/replay detected",
                          score |-> score, threshold |-> min_motion],
              flow_calls |-> 1]

check_liveness(frames, min_motion) ==
    IF Len(frames) < 2
    THEN [is_live |-> FALSE, motion_score |-> 0,
          reason |-> [text |-> "Insufficient frames for motion analysis"],
          flow_calls |-> 0]
    ELSE LET flows   == compute_optical_flow(frames)
             avg_mag == compute_motion_magnitude(flows)
         IN  IF avg_mag.num < min_motion * avg_mag.den
             THEN [is_live |-> FALSE,
                   motion_score |-> Round3(avg_mag.num, avg_mag.den),
                   reason |-> [text |-> "Static/replay detected",
                               score |-> Round3(avg_mag.num, avg_mag.den),
                               threshold |-> min_motion],
                   flow_calls |-> 1]
             ELSE [is_live |-> TRUE,
                   motion_score |-> Round3(avg_mag.num, avg_mag.den),
                   reason |-> [text |-> "Live motion detected",
                               score |-> Round3(avg_mag.num, avg_mag.den),
                               threshold |-> min_motion],
                   flow_calls |-> 1]

(***************************************************************************)
(* liveness.py: check_challenge_direction                                  *)
(***************************************************************************)
\* The keys of the scores dict in insertion order.
ScoreKeys == << "rotation", "zoom_in", "zoom_out", "left", "right" >>

\* The five candidates, as numerators over direction_info.n.
DirectionScores(direction_info) ==
    [rotation |-> Abs(direction_info.rotation),
     zoom_in  |-> Max2(direction_info.expansion, 0),
     zoom_out |-> Max2(-direction_info.expansion, 0),
     left     |-> Max2(-direction_info.horizontal, 0),
     right    |-> Max2(direction_info.horizontal, 0)]

\* Variant: the last key, in iteration order, that no other key exceeds.
PyMaxKeyLast(keys, scores) ==
    keys[CHOOSE i \in 1..Len(keys) :
            /\ \A j \in 1..Len(keys) : scores[keys[j]] <= scores[keys[i]]
            /\ \A j \in (i + 1)..Len(keys) : scores[keys[j]] < scores[keys[i]]]

\* max(scores, key=scores.get): the first key, in iteration order, whose
\* value no other key exceeds.
PyMaxKey(keys, scores) ==
    keys[CHOOSE i \in 1..Len(keys) :
            /\ \A j \in 1..Len(keys) : scores[keys[j]] <= scores[keys[i]]
            /\ \A j \in 1..(i - 1) : scores[keys[j]] < scores[keys[i]]]

\* Variant: no leniency, a strong motion matches only in the expected direction.
check_challenge_direction_strict(frames, expected_direction, direction_threshold) ==
    IF Len(frames) < 2
    THEN [direction_match |-> FALSE, detected_direction |-> "unknown",
          confidence |-> 0,
          reason |-> [text |-> "Insufficient frames for direction analysis"],
          flow_details |-> None,
          flow_calls |-> 0]
    ELSE LET flows          == compute_optical_flow(frames)
             direction_info == detect_dominant_direction(flows)
             n              == direction_info.n
             scores         == DirectionScores(direction_info)
             detected       == PyMaxKey(ScoreKeys, scores)
             confidence     == scores[detected]
             match          == (detected = expected_direction)
                                   /\ confidence > direction_threshold * n
         IN  [direction_match |-> match,
              detected_direction |-> detected,
              confidence |-> Round3(confidence, n),
              reason |-> [text |-> IF match THEN "Challenge direction matched"
                                   ELSE "Direction mismatch or weak motion"],
              flow_details |-> None,
              flow_calls |-> 1]

\* Variant: the flows are computed for any non-empty sequence.
check_challenge_direction_one_frame(frames, expected_direction, direction_threshold) ==
    IF Len(frames) < 1
    THEN [direction_match |-> FALSE, detected_direction |-> "unknown",
          confidence |-> 0,
          reason |-> [text |-> "Insufficient frames for direction analysis"],
          flow_details |-> None,
          flow_calls |-> 0]
    ELSE LET flows          == compute_optical_flow(frames)
             direction_info == detect_dominant_direction(flows)
             n              == direction_info.n
             scores         == DirectionScores(direction_info)
             detected       == PyMaxKey(ScoreKeys, scores)
             confidence     == scores[detected]
             strong         == confidence > direction_threshold * n
         IN  [direction_match |-> strong,
              detected_direction |-> detected,
              confidence |-> Round3(confidence, n),
              reason |-> [text |-> "Direction analysed"],
              flow_details |-> None,
              flow_calls |-> 1]

check_challenge_direction(frames, expected_direction, direction_threshold) ==
    IF Len(frames) < 2
    THEN [direction_match |-> FALSE, detected_direction |-> "unknown",
          confidence |-> 0,
          reason |-> [text |-> "Insufficient frames for direction analysis"],
          flow_details |-> None,
          flow_calls |-> 0]
    ELSE LET flows          == compute_optical_flow(frames)
             direction_info == detect_dominant_direction(flows)
             n              == direction_info.n
             scores         == DirectionScores(direction_info)
             detected       == PyMaxKey(ScoreKeys, scores)
             confidence     == scores[detected]
             strong         == confidence > direction_threshold * n
             match          == (detected = expected_direction) /\ strong
             shown          == Round3(confidence, n)
         IN  [direction_match |-> IF ~match /\ strong THEN TRUE ELSE match,
              detected_direction |-> detected,
              confidence |-> shown,
              reason |->
                 IF ~match /\ strong
                 THEN [text |-> "accepted with MVP leniency", detected |-> detected,
                       confidence |-> shown, expected |-> expected_direction]
                 ELSE IF match
                 THEN [text |-> "Challenge direction matched", detected |-> detected,
                       confidence |-> shown]
                 ELSE [text |-> "Direction mismatch or weak motion", detected |-> detected,
                       confidence |-> shown, expected |-> expected_direction],
              flow_details |->
                 [horizontal |-> Round3(direction_info.horizontal, n),
                  vertical   |-> Round3(direction_info.vertical, n),
                  expansion  |-> Round3(direction_info.expansion, n),
                  rotation   |-> Round3(direction_info.rotation, n)],
              flow_calls |-> 1]

(***************************************************************************)
(* Videos and frames (the input of cv2.VideoCapture)                       *)
(*   opens : cap.isOpened()        count : CAP_PROP_FRAME_COUNT as reported*)
(*   total : frames cap.read() can decode    small : len(bytes) < 1000     *)
(***************************************************************************)
Video(opens, count, total, motion, obj, small) ==
    [opens |-> opens, count |-> count, total |-> total,
     motion |-> motion, obj |-> obj, small |-> small]

Frame(video, idx) == [idx |-> idx, motion |-> video.motion, obj |-> video.obj]

Ok(v) == [ok |-> TRUE, val |-> v]
Raise(exc, msg) == [ok |-> FALSE, exc |-> exc, msg |-> msg]

\* np.linspace(0, stop, num, dtype=int): num evenly spaced values, floored.
LinspaceInt(stop, num) ==
    [i \in 1..num |-> IF num = 1 THEN 0 ELSE ((i - 1) * stop) \div (num - 1)] \o << >>

RECURSIVE Keep(_, _)
\* The elements of seq that are below limit, in order.
Keep(seq, limit) ==
    IF seq = <<>> THEN <<>>
    ELSE IF Head(seq) < limit THEN <<Head(seq)>> \o Keep(Tail(seq), limit)
    ELSE Keep(Tail(seq), limit)

extract_frames(video, n_frames) ==
    IF ~video.opens THEN Raise("ValueError", "Could not open video file")
    ELSE IF video.count <= 0
    THEN \* fallback: read every frame, then sample
         IF video.total = 0
         THEN Raise("ValueError", "No frames could be extracted from video")
         ELSE IF video.total > n_frames
         THEN LET indices == LinspaceInt(video.total - 1, n_frames)
              IN  Ok([k \in 1..n_frames |-> Frame(video, indices[k])] \o << >>)
         ELSE Ok([k \in 1..video.total |-> Frame(video, k - 1)] \o << >>)
    ELSE \* seek to each index; a failed read is skipped
         LET indices == LinspaceInt(video.count - 1, n_frames)
             read    == Keep(indices, video.total)
         IN  IF Len(read) = 0
             THEN Raise("ValueError", "No frames could be extracted from video")
             ELSE Ok([k \in 1..Len(read) |-> Frame(video, read[k])] \o << >>)

(***************************************************************************)
(* embedding_engine.py: embeddings and similarity                          *)
(* A normalised vector is kept on the scale 265 (norm 1.0 is 265); the     *)
(* extractor's raw outputs below have integer norms, so that the           *)
(* normalisation is exact.  Three components stand for the 1280 features   *)
(* of MobileNetV2.                                                         *)
(***************************************************************************)
\* The extractor's output for a frame showing the object.
RawVec(obj) ==
    CASE obj = "key"      -> << 48, 120, 514 >>
      [] obj = "key_far"  -> << -185, 108, 156 >>
      [] obj = "key_tilt" -> << -420, 540, 405 >>
      [] obj = "key_near" -> << -68, 24, 255 >>
      [] obj = "other"    -> << -257, -24, 60 >>

frame_to_embedding(frame) == RawVec(frame.obj)

Dot(a, b) == SumSeq([i \in 1..Len(a) |-> a[i] * b[i]])

RECURSIVE Bisect(_, _, _)
\* The largest r in lo..hi with r * r <= x.
Bisect(x, lo, hi) ==
    IF lo = hi THEN lo
    ELSE LET mid == (lo + hi + 1) \div 2
         IN  IF mid * mid <= x THEN Bisect(x, mid, hi) ELSE Bisect(x, lo, mid - 1)

\* The integer square root (x below 2^21).
ISqrt(x) == Bisect(x, 0, 1448)

Norm(v) == ISqrt(Dot(v, v))

\* np.mean(embeddings, axis=0), then avg / (norm + 1e-8).
get_average_embedding(frames) ==
    LET embeddings == [i \in 1..Len(frames) |-> frame_to_embedding(frames[i])]
        d   == Len(embeddings[1])
        avg == [k \in 1..d |->
                   SumSeq([i \in 1..Len(embeddings) |-> embeddings[i][k]])
                       \div Len(embeddings)]
        nrm == Norm(avg)
    IN  IF nrm = 0 THEN avg ELSE [k \in 1..d |-> (avg[k] * 265) \div nrm]

\* Variant: the longer vector cut to the length of the shorter one.
compute_similarity_truncating(emb1, emb2) ==
    LET d == IF Len(emb1) < Len(emb2) THEN Len(emb1) ELSE Len(emb2)
        a == SubSeq(emb1, 1, d)
        b == SubSeq(emb2, 1, d)
    IN  IF Norm(a) = 0 \/ Norm(b) = 0
        THEN Ok([num |-> 0, den |-> 1])
        ELSE Ok([num |-> Dot(a, b), den |-> Norm(a) * Norm(b)])

\* sklearn's cosine_similarity of two row vectors, as [num, den]; it raises
\* ValueError when the two rows differ in length.
compute_similarity(emb1, emb2) ==
    IF Len(emb1) # Len(emb2)
    THEN Raise("ValueError", "Incompatible dimension for X and Y matrices")
    ELSE IF Norm(emb1) = 0 \/ Norm(emb2) = 0
    THEN Ok([num |-> 0, den |-> 1])
    ELSE Ok([num |-> Dot(emb1, emb2), den |-> Norm(emb1) * Norm(emb2)])

\* round(similarity, 4) and f"{similarity:.4f}", in ticks.
Round4(sim) == RoundHalfEven(sim.num * 10000, sim.den)

(***************************************************************************)
(* auth.py                                                                 *)
(* A text is a sequence of characters; a character is [c |-> "x"], and the *)
(* 64 hex digits of a SHA-256 digest are the one element [sha256 |-> t],   *)
(* t the text digested (the hash is taken to be collision-free).           *)
(***************************************************************************)
Chr(x) == [c |-> x]
Text(chars) == [i \in 1..Len(chars) |-> Chr(chars[i])]

Sha256Hex(text) == << [sha256 |-> text] >>

\* secrets.token_hex(16): hex digits only.
Salts == { Text(<< "5", "f" >>) }

hash_password(password, salt) == salt \o Text(<< "$" >>) \o Sha256Hex(salt \o password)

\* hashed_password.split("$", 1): the parts around the first "$", or the
\* whole text alone when it holds none.
SplitOnce(text) ==
    LET cuts == {i \in 1..Len(text) : text[i] = Chr("$")}
    IN  IF cuts = {} THEN << text >>
        ELSE LET i == CHOOSE k \in cuts : \A j \in cuts : k <= j
             IN  << SubSeq(text, 1, i - 1), SubSeq(text, i + 1, Len(text)) >>

\* Variant: a stored text without "$" compared as a plain password.
verify_password_plain_fallback(plain_password, hashed_password) ==
    LET parts == SplitOnce(hashed_password)
    IN  IF Len(parts) # 2 THEN plain_password = hashed_password
        ELSE Sha256Hex(parts[1] \o plain_password) = parts[2]

\* Unpacking a split of one part raises ValueError, which is caught.
verify_password(plain_password, hashed_password) ==
    LET parts == SplitOnce(hashed_password)
    IN  IF Len(parts) # 2 THEN FALSE
        ELSE Sha256Hex(parts[1] \o plain_password) = parts[2]

VISUAL_ONLY_NO_PASSWORD ==
    Text(<< "V", "I", "S", "U", "A", "L", "_", "O", "N", "L", "Y", "_",
            "N", "O", "_", "P", "A", "S", "S", "W", "O", "R", "D" >>)

\* A JWT signed with SECRET_KEY; expiry is not modelled.
create_token(username) == [sub |-> username, signed |-> TRUE]

\* The payload's "sub" (wrapped as [sub |-> name]), or None.
verify_token(token) == IF token.signed THEN [sub |-> token.sub] ELSE None

NoHeader == [header |-> FALSE]
ForgedToken == [sub |-> "alice", signed |-> FALSE]

\* An HTTPException; it ran no check (see authenticate_try for ran, flow_calls).
Http(status, detail) ==
    [status |-> status, detail |-> detail, ran |-> << >>, flow_calls |-> 0]

\* main.py get_current_user: the username, or the 401 it raises.
get_current_user(authorization) ==
    IF authorization = NoHeader
    THEN [ok |-> FALSE, resp |-> Http(401, "Missing authorization token")]
    ELSE LET username == verify_token(authorization)
         IN  IF username = None
             THEN [ok |-> FALSE, resp |-> Http(401, "Invalid or expired token")]
             ELSE [ok |-> TRUE, val |-> username.sub]

(***************************************************************************)
(* models.py: the users table                                              *)
(* db maps a username to its row, or to NoRow.  The embedding column holds *)
(* NULL or the JSON text of the vector, [json |-> vector].  The columns id *)
(* and created_at are left out: no handler branches on them.               *)
(***************************************************************************)
Usernames == { "alice", "bob" }

NoRow == [row |-> FALSE]
NULL == [null |-> TRUE]

json_dumps(embedding) == [json |-> embedding]
json_loads(text) == text.json

\* Python truthiness of the embedding column: NULL and "" are falsy.
Truthy(column) == column # NULL

create_user(db, username, password_hash) ==
    IF db[username] # NoRow
    THEN Raise("ValueError", "Username already exists")
    ELSE Ok([db EXCEPT ![username] =
                 [password_hash |-> password_hash, embedding |-> NULL]])

get_user(db, username) == IF db[username] = NoRow THEN None ELSE db[username]

\* Variant: a row that holds a vector has only its first component replaced
\* (a write that stops part of the way).
store_embedding_partial(db, username, embedding) ==
    IF db[username] = NoRow THEN db
    ELSE IF db[username].embedding = NULL
    THEN [db EXCEPT ![username].embedding = json_dumps(embedding)]
    ELSE [db EXCEPT ![username].embedding =
             json_dumps([json_loads(db[username].embedding) EXCEPT ![1] = embedding[1]])]

\* UPDATE ... WHERE username = ?: one statement, committed at once.
store_embedding(db, username, embedding) ==
    IF db[username] = NoRow THEN db
    ELSE [db EXCEPT ![username].embedding = json_dumps(embedding)]

\* Variant: the UPDATE without its WHERE clause.
revoke_embedding_everywhere(db, username) ==
    [u \in DOMAIN db |->
        IF db[u] = NoRow THEN db[u] ELSE [db[u] EXCEPT !.embedding = NULL]]

revoke_embedding(db, username) ==
    IF db[username] = NoRow THEN db
    ELSE [db EXCEPT ![username].embedding = NULL]

get_embedding(db, username) ==
    IF db[username] # NoRow /\ Truthy(db[username].embedding)
    THEN json_loads(db[username].embedding)
    ELSE None

(***************************************************************************)
(* main.py: the body of /api/authenticate after the video was read         *)
(* (the try block).  The fields ran and flow_calls of the result are       *)
(* bookkeeping of the model: the checks the call evaluated, in order, and  *)
(* the calls of compute_optical_flow it made.                              *)
(***************************************************************************)
\* uuid.uuid4() is drawn by the caller; the id is "SP-" and 8 of its digits.
SessionId(uuid) == [sp |-> uuid]

\* Variant: the threshold excluded.
SimilarityPassExclusive(similarity) ==
    similarity.num * 10000 > SIMILARITY_THRESHOLD * similarity.den

SimilarityPass(similarity) ==
    similarity.num * 10000 >= SIMILARITY_THRESHOLD * similarity.den

\* Variant: the direction verdict left out of the decision.
AuthenticatedWithoutDirection(liveness_result, direction_result, similarity_pass) ==
    liveness_result.is_live /\ similarity_pass

Authenticated(liveness_result, direction_result, similarity_pass) ==
    liveness_result.is_live /\ direction_result.direction_match /\ similarity_pass

\* Variant: a session id minted for every result.
MintSessionAlways(authenticated, uuid) == SessionId(uuid)

MintSession(authenticated, uuid) == IF authenticated THEN SessionId(uuid) ELSE None

RejectReasons(liveness_result, direction_result, similarity_pass) ==
    (IF ~liveness_result.is_live
        THEN << "failed liveness (static/replay)" >> ELSE << >>)
    \o (IF ~direction_result.direction_match
        THEN << "failed challenge direction" >> ELSE << >>)
    \o (IF ~similarity_pass THEN << "object mismatch" >> ELSE << >>)

\* Variant: the last line of the log always reports acceptance.
ResultLineAlwaysAccepted(authenticated, reasons) ==
    [stage |-> "result", text |-> "AUTHENTICATED"]

\* The last line appended to auth_log.
ResultLine(authenticated, reasons) ==
    IF authenticated
    THEN [stage |-> "result", text |-> "AUTHENTICATED"]
    ELSE [stage |-> "result", text |-> "REJECTED", reasons |-> reasons]

authenticate_try(stored_emb, challenge, video, uuid) ==
    LET ex == extract_frames(video, N_FRAMES)
    IN  IF ~ex.ok
        THEN [status |-> 500, detail |-> << "Authentication failed", ex.msg >>,
              ran |-> << >>, flow_calls |-> 0]
        ELSE
        LET frames           == ex.val
            liveness_result  == check_liveness(frames, LIVENESS_THRESHOLD)
            direction_result ==
                check_challenge_direction(frames, challenge.expected_direction,
                                          DIRECTION_THRESHOLD)
            live_embedding   == get_average_embedding(frames)
            sim              == compute_similarity(stored_emb, live_embedding)
            flow_calls       == liveness_result.flow_calls + direction_result.flow_calls
        IN  IF ~sim.ok
            THEN [status |-> 500, detail |-> << "Authentication failed", sim.msg >>,
                  ran |-> << "liveness", "direction", "similarity" >>,
                  flow_calls |-> flow_calls]
            ELSE
            LET similarity      == sim.val
                similarity_pass == SimilarityPass(similarity)
                authenticated   ==
                    Authenticated(liveness_result, direction_result, similarity_pass)
                reasons ==
                    RejectReasons(liveness_result, direction_result, similarity_pass)
                auth_log ==
                    << [stage |-> "frames", n |-> Len(frames)],
                       [stage |-> "liveness", ok |-> liveness_result.is_live,
                        reason |-> liveness_result.reason],
                       [stage |-> "direction", ok |-> direction_result.direction_match,
                        reason |-> direction_result.reason],
                       [stage |-> "similarity", ok |-> similarity_pass,
                        score |-> Round4(similarity),
                        threshold |-> SIMILARITY_THRESHOLD],
                       ResultLine(authenticated, reasons) >>
            IN  [status |-> 200,
                 success |-> TRUE,
                 authenticated |-> authenticated,
                 session_id |-> MintSession(authenticated, uuid),
                 message |-> IF authenticated THEN "AUTHENTICATED" ELSE "REJECTED",
                 details |->
                    [liveness |->
                        [passed |-> liveness_result.is_live,
                         motion_score |-> liveness_result.motion_score,
                         reason |-> liveness_result.reason],
                     direction |->
                        [passed |-> direction_result.direction_match,
                         detected |-> direction_result.detected_direction,
                         expected |-> challenge.expected_direction,
                         confidence |-> direction_result.confidence,
                         reason |-> direction_result.reason],
                     similarity |->
                        [passed |-> similarity_pass,
                         score |-> Round4(similarity),
                         threshold |-> SIMILARITY_THRESHOLD],
                     auth_log |-> auth_log],
                 ran |-> << "liveness", "direction", "similarity" >>,
                 flow_calls |-> flow_calls]

\* Variant: a similarity equal to the threshold refused too.
SimilarityBelowOrEqual(similarity) ==
    similarity.num * 10000 <= SIMILARITY_THRESHOLD * similarity.den

\* login_visual's own comparison: similarity < SIMILARITY_THRESHOLD.
SimilarityBelow(similarity) ==
    similarity.num * 10000 < SIMILARITY_THRESHOLD * similarity.den

(***************************************************************************)
(* main.py: the body of /api/login/visual after the video was read.        *)
(* token is the JWT of a successful login, None otherwise.                 *)
(***************************************************************************)
login_visual_try(username, stored_emb, challenge, video) ==
    LET ex == extract_frames(video, N_FRAMES)
    IN  IF ~ex.ok
        THEN [status |-> 500, detail |-> << "Internal server error during visual login" >>,
              token |-> None, ran |-> << >>, flow_calls |-> 0]
        ELSE
        LET frames           == ex.val
            liveness_result  == check_liveness(frames, LIVENESS_THRESHOLD)
            direction_result ==
                check_challenge_direction(frames, challenge.expected_direction,
                                          DIRECTION_THRESHOLD)
            live_embedding   == get_average_embedding(frames)
            sim              == compute_similarity(stored_emb, live_embedding)
        IN  IF ~liveness_result.is_live
            THEN [status |-> 401,
                  detail |-> << "Liveness failed", liveness_result.reason >>,
                  token |-> None, ran |-> << "liveness" >>,
                  flow_calls |-> liveness_result.flow_calls]
            ELSE IF ~direction_result.direction_match
            THEN [status |-> 401,
                  detail |-> << "Challenge failed: Movement direction did not match" >>,
                  token |-> None, ran |-> << "liveness", "direction" >>,
                  flow_calls |-> liveness_result.flow_calls + direction_result.flow_calls]
            ELSE IF ~sim.ok
            THEN [status |-> 500,
                  detail |-> << "Internal server error during visual login" >>,
                  token |-> None, ran |-> << "liveness", "direction", "similarity" >>,
                  flow_calls |-> liveness_result.flow_calls + direction_result.flow_calls]
            ELSE IF SimilarityBelow(sim.val)
            THEN [status |-> 401,
                  detail |-> << "Visual authentication failed: Object mismatch" >>,
                  token |-> None, ran |-> << "liveness", "direction", "similarity" >>,
                  flow_calls |-> liveness_result.flow_calls + direction_result.flow_calls]
            ELSE [status |-> 200,
                  success |-> TRUE,
                  message |-> "Visual login successful",
                  token |-> create_token(username),
                  ran |-> << "liveness", "direction", "similarity" >>,
                  flow_calls |-> liveness_result.flow_calls + direction_result.flow_calls]

(***************************************************************************)
(* State                                                                   *)
(*   users  : the users table                                              *)
(*   tokens : the JWTs issued so far                                       *)
(*   slot   : per server task, the handler it runs: idle, suspended at     *)
(*            "await video.read()" with its local variables, or done with  *)
(*            the response it returned (req: the inputs it was given)      *)
(*   probe  : the last direct application of the two classifiers           *)
(***************************************************************************)
VARIABLES users, tokens, slot, probe

vars == << users, tokens, slot, probe >>

Slots == { 1, 2 }

NumUuids == 2
Uuids == 1..NumUuids

Idle == [pc |-> "idle"]
Done(op, req, resp) == [pc |-> "done", op |-> op, req |-> req, resp |-> resp]

\* A request is taken by the first task that is not suspended.
Free(s) ==
    /\ slot[s].pc # "await"
    /\ \A t \in Slots : t < s => slot[t].pc = "await"

\* Task s moves to x.  Only the latest response is kept on record: a new
\* response replaces the one another task still shows.
Put(s, x) ==
    [t \in Slots |->
        IF t = s THEN x
        ELSE IF x.pc = "done" /\ slot[t].pc = "done" THEN Idle
        ELSE slot[t]]

StrLen(name) == IF name = "al" THEN 2 ELSE 5

PW1 == Text(<< "p", "a", "s", "s" >>)
PW2 == Text(<< "p", "$", "s", "s" >>)
PWShort == Text(<< "p", "a" >>)

SysPasswords == { PW1, PW2, VISUAL_ONLY_NO_PASSWORD }

\* A vector stored by an earlier deployment of the server, whose extractor
\* produced vectors of another length (init_db keeps an existing table).
LegacyVec == << 159, 212 >>

EmptyDb == [u \in Usernames |-> NoRow]

Init ==
    /\ users = EmptyDb
    /\ tokens = {}
    /\ slot = [s \in Slots |-> Idle]
    /\ probe = None

AuthHeaders == { NoHeader, ForgedToken } \cup tokens

SysVideos ==
    { Video(TRUE, 0, 12, "right", "key", FALSE),
      Video(TRUE, 3, 3, "static", "other", FALSE),
      Video(TRUE, 0, 0, "static", "key", FALSE),
      Video(TRUE, 0, 12, "right", "other", TRUE) }

SysChallengeIds == { "tilt_right", "bogus" }

(***************************************************************************)
(* POST /api/register                                                      *)
(***************************************************************************)
Register(s) ==
    /\ Free(s)
    /\ \E username \in {"alice", "al"}, password \in {PW1, PWShort}, salt \in Salts :
        LET req == [username |-> username]
        IN  IF StrLen(username) < 3 \/ Len(password) < 4
            THEN /\ slot' = Put(s, Done("register", req,
                        Http(400, "Username (3+ chars) and password (4+ chars) required")))
                 /\ UNCHANGED << users, tokens >>
            ELSE LET made == create_user(users, username, hash_password(password, salt))
                 IN  IF ~made.ok
                     THEN /\ slot' = Put(s,
                                 Done("register", req, Http(409, made.msg)))
                          /\ UNCHANGED << users, tokens >>
                     ELSE /\ users' = made.val
                          /\ tokens' = tokens \cup { create_token(username) }
                          /\ slot' = Put(s, Done("register", req,
                                 [status |-> 200, success |-> TRUE,
                                  token |-> create_token(username)]))
    /\ UNCHANGED probe

(***************************************************************************)
(* POST /api/login                                                         *)
(***************************************************************************)
Login(s, passwords) ==
    /\ Free(s)
    /\ \E username \in Usernames, password \in passwords :
        LET req  == [username |-> username, password |-> password]
            user == get_user(users, username)
        IN  IF user = None
            THEN /\ slot' = Put(s,
                        Done("login", req, Http(401, "Invalid username or password")))
                 /\ UNCHANGED tokens
            ELSE IF ~verify_password(password, user.password_hash)
            THEN /\ slot' = Put(s,
                        Done("login", req, Http(401, "Invalid username or password")))
                 /\ UNCHANGED tokens
            ELSE /\ tokens' = tokens \cup { create_token(username) }
                 /\ slot' = Put(s, Done("login", req,
                        [status |-> 200, success |-> TRUE,
                         token |-> create_token(username),
                         has_object |-> user.embedding # NULL,
                         needs_visual_auth |-> user.embedding # NULL]))
    /\ UNCHANGED << users, probe >>

(***************************************************************************)
(* POST /api/login/challenge                                               *)
(***************************************************************************)
LoginChallenge(s) ==
    /\ Free(s)
    /\ \E username \in Usernames, pick \in 1..Len(CHALLENGES) :
        LET req  == [username |-> username]
            user == get_user(users, username)
        IN  slot' = Put(s, Done("login_challenge", req,
                IF user = None
                THEN Http(404, "User not found or visual key not enrolled")
                ELSE IF ~Truthy(user.embedding)
                THEN Http(400, "No visual key enrolled. Please login with password first.")
                ELSE [status |-> 200, success |-> TRUE, challenge |-> CHALLENGES[pick]]))
    /\ UNCHANGED << users, tokens, probe >>

(***************************************************************************)
(* POST /api/revoke                                                        *)
(***************************************************************************)
Revoke(s) ==
    /\ Free(s)
    /\ \E authorization \in AuthHeaders :
        LET who == get_current_user(authorization)
            req == [authorization |-> authorization]
        IN  IF ~who.ok
            THEN /\ slot' = Put(s, Done("revoke", req, who.resp))
                 /\ UNCHANGED users
            ELSE /\ users' = revoke_embedding(users, who.val)
                 /\ slot' = Put(s, Done("revoke", req,
                        [status |-> 200, success |-> TRUE]))
    /\ UNCHANGED << tokens, probe >>

(***************************************************************************)
(* POST /api/enroll-object: up to "await video.read()", and from there     *)
(***************************************************************************)
EnrollBegin(s) ==
    /\ Free(s)
    /\ \E authorization \in AuthHeaders :
        LET who == get_current_user(authorization)
        IN  slot' = Put(s,
                IF ~who.ok
                THEN Done("enroll_object", [authorization |-> authorization], who.resp)
                ELSE [pc |-> "await", op |-> "enroll_object", username |-> who.val])
    /\ UNCHANGED << users, tokens, probe >>

EnrollFinish(s, videos) ==
    /\ slot[s].pc = "await" /\ slot[s].op = "enroll_object"
    /\ \E video \in videos :
        LET username == slot[s].username
            req == [username |-> username, video |-> video]
            ex  == extract_frames(video, N_FRAMES)
        IN  IF video.small
            THEN /\ slot' = Put(s, Done("enroll_object", req,
                        Http(400, "Video file too small. Record at least 2 seconds.")))
                 /\ UNCHANGED users
            ELSE IF ~ex.ok
            THEN /\ slot' = Put(s, Done("enroll_object", req,
                        Http(500, << "Enrollment failed", ex.msg >>)))
                 /\ UNCHANGED users
            ELSE LET avg_embedding == get_average_embedding(ex.val)
                 IN  /\ users' = store_embedding(users, username, avg_embedding)
                     /\ slot' = Put(s, Done("enroll_object", req,
                            [status |-> 200, success |-> TRUE,
                             frames_extracted |-> Len(ex.val),
                             embedding_dim |-> Len(avg_embedding),
                             stored |-> avg_embedding]))
    /\ UNCHANGED << tokens, probe >>

(***************************************************************************)
(* POST /api/register/visual                                               *)
(***************************************************************************)
RegisterVisualBegin(s) ==
    /\ Free(s)
    /\ \E username \in Usernames \cup {"al"} :
        slot' = Put(s,
            IF StrLen(username) < 3
            THEN Done("register_visual", [username |-> username],
                      Http(400, "Username must be at least 3 characters"))
            ELSE IF get_user(users, username) # None
            THEN Done("register_visual", [username |-> username],
                      Http(409, "Username already taken"))
            ELSE [pc |-> "await", op |-> "register_visual", username |-> username])
    /\ UNCHANGED << users, tokens, probe >>

RegisterVisualFinish(s, videos) ==
    /\ slot[s].pc = "await" /\ slot[s].op = "register_visual"
    /\ \E video \in videos :
        LET username == slot[s].username
            req  == [username |-> username, video |-> video]
            ex   == extract_frames(video, N_FRAMES)
            made == create_user(users, username, VISUAL_ONLY_NO_PASSWORD)
        IN  IF video.small
            THEN /\ slot' = Put(s,
                        Done("register_visual", req, Http(400, "Video too small")))
                 /\ UNCHANGED << users, tokens >>
            ELSE IF ~ex.ok
            THEN /\ slot' = Put(s, Done("register_visual", req,
                        Http(500, << "Registration failed", ex.msg >>)))
                 /\ UNCHANGED << users, tokens >>
            ELSE IF ~made.ok
            THEN /\ slot' = Put(s, Done("register_visual", req,
                        Http(500, << "Registration failed", made.msg >>)))
                 /\ UNCHANGED << users, tokens >>
            ELSE LET avg_embedding == get_average_embedding(ex.val)
                 IN  /\ users' = store_embedding(made.val, username, avg_embedding)
                     /\ tokens' = tokens \cup { create_token(username) }
                     /\ slot' = Put(s, Done("register_visual", req,
                            [status |-> 200, success |-> TRUE,
                             token |-> create_token(username),
                             frames |-> Len(ex.val),
                             embedding_dim |-> Len(avg_embedding)]))
    /\ UNCHANGED probe

(***************************************************************************)
(* POST /api/authenticate                                                  *)
(***************************************************************************)
\* The handler up to "await video.read()": the response it raises, or its
\* local variables at the await.
authenticate_begin(db, authorization, challenge_id) ==
    LET who == get_current_user(authorization)
        req == [authorization |-> authorization, challenge_id |-> challenge_id]
    IN  IF ~who.ok THEN Done("authenticate", req, who.resp)
        ELSE LET username   == who.val
                 stored_emb == get_embedding(db, username)
                 challenge  == get_challenge_by_id(challenge_id)
             IN  IF stored_emb = None
                 THEN Done("authenticate", req,
                          Http(400, "No object enrolled. Please enroll an object first."))
                 ELSE IF challenge = None
                 THEN Done("authenticate", req, Http(400, "Invalid challenge ID"))
                 ELSE [pc |-> "await", op |-> "authenticate",
                       username |-> username, stored_emb |-> stored_emb,
                       challenge |-> challenge]

AuthenticateBegin(s, challenge_ids) ==
    /\ Free(s)
    /\ \E authorization \in AuthHeaders, challenge_id \in challenge_ids :
        slot' = Put(s, authenticate_begin(users, authorization, challenge_id))
    /\ UNCHANGED << users, tokens, probe >>

AuthenticateFinish(s, videos) ==
    /\ slot[s].pc = "await" /\ slot[s].op = "authenticate"
    /\ \E video \in videos, uuid \in Uuids :
        slot' = Put(s,
            Done("authenticate",
                 [username |-> slot[s].username, stored_emb |-> slot[s].stored_emb,
                  challenge |-> slot[s].challenge, video |-> video],
                 authenticate_try(slot[s].stored_emb, slot[s].challenge, video, uuid)))
    /\ UNCHANGED << users, tokens, probe >>

(***************************************************************************)
(* POST /api/login/visual                                                  *)
(***************************************************************************)
\* The handler up to "await video.read()".
login_visual_begin(db, username, challenge_id) ==
    LET req       == [username |-> username, challenge_id |-> challenge_id]
        user      == get_user(db, username)
        challenge == get_challenge_by_id(challenge_id)
    IN  IF user = None
        THEN Done("login_visual", req, Http(401, "Invalid user or no visual key"))
        ELSE IF ~Truthy(user.embedding)
        THEN Done("login_visual", req, Http(401, "Invalid user or no visual key"))
        ELSE IF challenge = None
        THEN Done("login_visual", req, Http(400, "Invalid challenge ID"))
        ELSE [pc |-> "await", op |-> "login_visual",
              username |-> username,
              stored_emb |-> get_embedding(db, username),
              challenge |-> challenge]

LoginVisualBegin(s, challenge_ids) ==
    /\ Free(s)
    /\ \E username \in Usernames, challenge_id \in challenge_ids :
        slot' = Put(s, login_visual_begin(users, username, challenge_id))
    /\ UNCHANGED << users, tokens, probe >>

LoginVisualFinish(s, videos) ==
    /\ slot[s].pc = "await" /\ slot[s].op = "login_visual"
    /\ \E video \in videos :
        LET resp == login_visual_try(slot[s].username,
                                     slot[s].stored_emb, slot[s].challenge, video)
        IN  /\ slot' = Put(s,
                   Done("login_visual",
                        [username |-> slot[s].username, stored_emb |-> slot[s].stored_emb,
                         challenge |-> slot[s].challenge, video |-> video],
                        resp))
            /\ tokens' = IF resp.token = None THEN tokens ELSE tokens \cup { resp.token }
    /\ UNCHANGED << users, probe >>

(***************************************************************************)
(* The server: every handler on every task, suspended handlers resuming in *)
(* any order.                                                              *)
(***************************************************************************)
Next ==
    \E s \in Slots :
        \/ Register(s)
        \/ Login(s, SysPasswords)
        \/ LoginChallenge(s)
        \/ Revoke(s)
        \/ EnrollBegin(s)
        \/ EnrollFinish(s, SysVideos)
        \/ RegisterVisualBegin(s)
        \/ RegisterVisualFinish(s, SysVideos)
        \/ AuthenticateBegin(s, SysChallengeIds)
        \/ AuthenticateFinish(s, SysVideos)
        \/ LoginVisualBegin(s, SysChallengeIds)
        \/ LoginVisualFinish(s, SysVideos)

Spec == Init /\ [][Next]_vars

(***************************************************************************)
(* Properties of the server (under Spec)                                   *)
(***************************************************************************)
\* The vectors one enrollment call (enroll-object or register-visual) can
\* compute from a video it accepts.
EnrollmentVectors ==
    { get_average_embedding(extract_frames(v, N_FRAMES).val) :
          v \in { w \in SysVideos : ~w.small /\ extract_frames(w, N_FRAMES).ok } }

\* C12: the stored embedding of every account is absent or the complete
\* vector of one enrollment call, and so is the vector every suspended
\* reader (authenticate, login_visual) holds.
C12_StoredVectorOfOneEnrollment ==
    /\ \A u \in Usernames :
           users[u] # NoRow =>
               \/ users[u].embedding = NULL
               \/ json_loads(users[u].embedding) \in EnrollmentVectors
    /\ \A s \in Slots :
           (slot[s].pc = "await" /\ slot[s].op \in { "authenticate", "login_visual" })
               => slot[s].stored_emb \in EnrollmentVectors
    /\ \A u \in Usernames :
           get_embedding(users, u) # None
               => get_embedding(users, u) \in EnrollmentVectors

\* C12 witness: a re-enrollment completed while a verification of the same
\* account, holding the vector of the earlier enrollment, is suspended.
C12_ReenrolledDuringVerification ==
    \E s, t \in Slots :
        /\ slot[s].pc = "done" /\ slot[s].op = "enroll_object"
        /\ slot[s].resp.status = 200
        /\ slot[t].pc = "await" /\ slot[t].op = "authenticate"
        /\ slot[t].username = slot[s].req.username
        /\ slot[t].stored_emb # slot[s].resp.stored
        /\ get_embedding(users, slot[t].username) = slot[s].resp.stored

\* The account a completed request was made for.
Subject(done) ==
    IF "username" \in DOMAIN done.req THEN done.req.username
    ELSE IF get_current_user(done.req.authorization).ok
    THEN get_current_user(done.req.authorization).val
    ELSE "nobody"

\* Task s completes a request in this step.
Completes(s) == slot'[s] # slot[s] /\ slot'[s].pc = "done"

\* C13: a step changes the row of an account only when it completes a
\* register, register-visual, enroll-object or revoke request made for that
\* very account; a step that completes an /api/authenticate call changes no
\* row at all.
C13_OnlyOwnRowChanges ==
    [][ /\ \A b \in Usernames :
             users'[b] # users[b] =>
                 \E s \in Slots :
                     /\ Completes(s)
                     /\ slot'[s].op \in { "register", "register_visual",
                                         "enroll_object", "revoke" }
                     /\ Subject(slot'[s]) = b
        /\ \A s \in Slots :
             (Completes(s) /\ slot'[s].op = "authenticate") => users' = users
      ]_vars

\* C13 witness: a revoke completed for one account while another account
\* holds its stored embedding.
C13_RevokedBesideEnrolledAccount ==
    \E s \in Slots : \E b \in Usernames :
        /\ slot[s].pc = "done" /\ slot[s].op = "revoke"
        /\ slot[s].resp.status = 200
        /\ b # Subject(slot[s])
        /\ users[Subject(slot[s])] # NoRow
        /\ users[Subject(slot[s])].embedding = NULL
        /\ get_embedding(users, b) # None

\* The response carries a login token.
TokenIssued(resp) == "token" \in DOMAIN resp /\ resp.token # None

\* The account exists and holds the sentinel in place of a password hash.
VisualOnly(db, username) ==
    db[username] # NoRow /\ db[username].password_hash = VISUAL_ONLY_NO_PASSWORD

\* Passwords a client may submit against the sentinel.
ProbePasswords ==
    SysPasswords
    \cup { << >>, Text(<< "$" >>),
           VISUAL_ONLY_NO_PASSWORD \o Text(<< "$" >>),
           Text(<< "$" >>) \o VISUAL_ONLY_NO_PASSWORD,
           Sha256Hex(VISUAL_ONLY_NO_PASSWORD) }
    \cup { hash_password(PW1, salt) : salt \in Salts }

\* C18: an account created by /api/register/visual stores the sentinel
\* password "VISUAL_ONLY_NO_PASSWORD"; verify_password is false against the
\* sentinel for every submitted password, the sentinel itself and texts
\* holding "$" included; /api/login answers 401 without a token for an
\* account that stores the sentinel.
C18_NoPasswordLoginForVisualOnly ==
    /\ \A s \in Slots :
            (slot[s].pc = "done" /\ slot[s].op = "register_visual"
                /\ slot[s].resp.status = 200)
            => VisualOnly(users, slot[s].req.username)
    /\ \A password \in ProbePasswords :
            ~verify_password(password, VISUAL_ONLY_NO_PASSWORD)
    /\ \A s \in Slots :
            (slot[s].pc = "done" /\ slot[s].op = "login"
                /\ VisualOnly(users, slot[s].req.username))
            => slot[s].resp.status = 401 /\ ~TokenIssued(slot[s].resp)

\* The sentinel itself submitted as the password of a visual-only account.
C18_SentinelSubmittedAndRefused ==
    \E s \in Slots :
        /\ slot[s].pc = "done" /\ slot[s].op = "login"
        /\ VisualOnly(users, slot[s].req.username)
        /\ slot[s].req.password = VISUAL_ONLY_NO_PASSWORD
        /\ slot[s].resp.status = 401

\* C19: every existing account keeps a usable login method: no reachable
\* state holds an account with the visual-only sentinel password and no
\* stored embedding.
C19_EveryAccountCanLogIn ==
    \A username \in Usernames :
        VisualOnly(users, username) => get_embedding(users, username) # None

(***************************************************************************)
(* The two verification endpoints against a users table as earlier         *)
(* requests left it: alice registered and enrolled, bob unknown or         *)
(* registered without a visual key; alice's stored vector is the one her   *)
(* enrollment computed or one an earlier deployment left; one request at a *)
(* time, every kind of video.                                              *)
(***************************************************************************)
KeyVideo == Video(TRUE, 0, 12, "right", "key", FALSE)

\* What /api/enroll-object stored for KeyVideo.
EnrolledVec == get_average_embedding(extract_frames(KeyVideo, N_FRAMES).val)

VerifyDbs ==
    { [alice |-> [password_hash |-> hash_password(PW1, Text(<< "5", "f" >>)),
                  embedding |-> json_dumps(v)],
       bob   |-> b] :
        v \in { EnrolledVec, LegacyVec },
        b \in { NoRow, [password_hash |-> VISUAL_ONLY_NO_PASSWORD, embedding |-> NULL] } }

VerifyVideos ==
    { Video(TRUE, 12, 12, motion, obj, FALSE) :
          motion \in { "right", "weak", "edge", "static" }, obj \in { "key", "other" } }
    \cup { KeyVideo,
           Video(TRUE, 12, 12, "right", "key_far", FALSE),
           Video(TRUE, 12, 12, "right", "key_tilt", FALSE),
           Video(TRUE, 1, 1, "right", "key", FALSE),
           Video(TRUE, 3, 3, "lenient", "key", FALSE),
           Video(TRUE, 0, 0, "static", "key", FALSE),
           Video(FALSE, 0, 0, "static", "key", TRUE) }

VerifyChallengeIds == { "tilt_right", "rotate_clockwise", "bogus" }

InitVerify ==
    /\ users \in VerifyDbs
    /\ tokens = { create_token(u) : u \in { n \in Usernames : users[n] # NoRow } }
    /\ slot = [s \in Slots |-> Idle]
    /\ probe = None

NextVerify ==
    \/ AuthenticateBegin(1, VerifyChallengeIds)
    \/ AuthenticateFinish(1, VerifyVideos)
    \/ LoginVisualBegin(1, VerifyChallengeIds)
    \/ LoginVisualFinish(1, VerifyVideos)

SpecVerify == InitVerify /\ [][NextVerify]_vars

(***************************************************************************)
(* Properties of the verification endpoints (under SpecVerify)             *)
(***************************************************************************)
AllChecks == << "liveness", "direction", "similarity" >>

\* Task s shows the response of a verification handler that read its video.
Verified(s, op) ==
    /\ slot[s].pc = "done"
    /\ slot[s].op = op
    /\ "video" \in DOMAIN slot[s].req

\* Task s shows an AuthenticationResult of /api/authenticate.
AuthResult(s) == Verified(s, "authenticate") /\ slot[s].resp.status = 200

\* The frames a verification call extracted, and the three verdicts on them.
FramesOf(req) == extract_frames(req.video, N_FRAMES)

VerdictsOf(req) ==
    LET frames == FramesOf(req).val
        sim    == compute_similarity(req.stored_emb, get_average_embedding(frames))
    IN  [liveness   |-> check_liveness(frames, LIVENESS_THRESHOLD).is_live,
         direction  |-> check_challenge_direction(frames, req.challenge.expected_direction,
                                                  DIRECTION_THRESHOLD).direction_match,
         similarity |-> sim.ok /\ SimilarityPass(sim.val)]

\* C1: every result of /api/authenticate is authenticated exactly when the
\* liveness verdict is live, the direction verdict matched and the similarity
\* verdict passed; the verdicts it reports are those of the three checks.
C1_AuthenticatedIffAllThree ==
    \A s \in Slots :
        AuthResult(s) =>
            LET r == slot[s].resp
                v == VerdictsOf(slot[s].req)
            IN  /\ r.details.liveness.passed = v.liveness
                /\ r.details.direction.passed = v.direction
                /\ r.details.similarity.passed = v.similarity
                /\ r.authenticated <=> (v.liveness /\ v.direction /\ v.similarity)

\* C1 witness: live, the right object, only the direction verdict failing,
\* and the result is a rejection.
C1_OnlyDirectionFails ==
    \E s \in Slots :
        /\ AuthResult(s)
        /\ slot[s].resp.details.liveness.passed
        /\ ~slot[s].resp.details.direction.passed
        /\ slot[s].resp.details.similarity.passed
        /\ ~slot[s].resp.authenticated

\* C6: a result of /api/authenticate carries a session id exactly when it is
\* authenticated.
C6_SessionIdIffAuthenticated ==
    \A s \in Slots :
        AuthResult(s) =>
            (slot[s].resp.session_id # None <=> slot[s].resp.authenticated)

\* C6 witness: a rejection, with its null session id.
C6_RejectedWithoutSession ==
    \E s \in Slots :
        /\ AuthResult(s)
        /\ ~slot[s].resp.authenticated
        /\ slot[s].resp.session_id = None

\* The stages a rejection of /api/authenticate has to name, in order.
FailingStages(v) ==
    (IF ~v.liveness THEN << "failed liveness (static/replay)" >> ELSE << >>)
    \o (IF ~v.direction THEN << "failed challenge direction" >> ELSE << >>)
    \o (IF ~v.similarity THEN << "object mismatch" >> ELSE << >>)

\* C7: at either verification endpoint, a call whose frames were extracted
\* and whose vectors are comparable, and of which some check fails, has
\* evaluated all three checks; /api/authenticate then returns a rejection
\* (not a fault) naming every failing stage.
C7_AllChecksEvaluated ==
    \A s \in Slots :
        \A op \in { "authenticate", "login_visual" } :
            ( /\ Verified(s, op)
              /\ FramesOf(slot[s].req).ok
              /\ Len(slot[s].req.stored_emb) = Len(EnrolledVec)
              /\ LET v == VerdictsOf(slot[s].req)
                 IN  ~(v.liveness /\ v.direction /\ v.similarity) )
            => /\ slot[s].resp.ran = AllChecks
               /\ op = "authenticate" =>
                     /\ slot[s].resp.status = 200
                     /\ ~slot[s].resp.authenticated
                     /\ slot[s].resp.details.auth_log[5].reasons
                            = FailingStages(VerdictsOf(slot[s].req))

\* C8 as stated: a second call with the inputs of a completed call returns
\* the same result in every field, session id included.
C8_SameResultWhateverTheDraw ==
    \A s \in Slots :
        Verified(s, "authenticate") =>
            \A uuid \in Uuids :
                authenticate_try(slot[s].req.stored_emb, slot[s].req.challenge,
                                 slot[s].req.video, uuid) = slot[s].resp

\* C8 (as amended): a second call with the inputs of a completed call returns
\* the same result in every field, except that an acceptance carries a
\* session id of its own; rejections and faults are identical throughout.
C8_SameResultButSessionId ==
    \A s \in Slots :
        Verified(s, "authenticate") =>
            \A uuid \in Uuids :
                LET again == authenticate_try(slot[s].req.stored_emb,
                                              slot[s].req.challenge,
                                              slot[s].req.video, uuid)
                    first == slot[s].resp
                IN  IF first.status = 200 /\ first.authenticated
                    THEN /\ again.status = 200
                         /\ again.session_id = SessionId(uuid)
                         /\ [again EXCEPT !.session_id = first.session_id] = first
                    ELSE again = first

\* C8 witness: an acceptance whose session id is not the one another draw
\* gives.
C8_AcceptedTwiceDiffers ==
    \E s \in Slots :
        /\ AuthResult(s)
        /\ slot[s].resp.authenticated
        /\ \E uuid \in Uuids : slot[s].resp.session_id # SessionId(uuid)

\* Task s shows a verification whose stored vector and fresh vector (which
\* the call computed) differ in length.
LengthsDiffer(s, op) ==
    /\ Verified(s, op)
    /\ FramesOf(slot[s].req).ok
    /\ op = "login_visual" => Len(slot[s].resp.ran) = 3
    /\ Len(slot[s].req.stored_emb)
           # Len(get_average_embedding(FramesOf(slot[s].req).val))

\* C9: a verification whose stored and fresh vectors differ in length ends
\* in a fault (HTTP 500): no result, no verdicts, no score, no session id,
\* no token.
C9_LengthMismatchIsFault ==
    \A s \in Slots :
        /\ LengthsDiffer(s, "authenticate") =>
              /\ slot[s].resp.status = 500
              /\ DOMAIN slot[s].resp = { "status", "detail", "ran", "flow_calls" }
        /\ LengthsDiffer(s, "login_visual") =>
              /\ slot[s].resp.status = 500
              /\ slot[s].resp.token = None

\* C9 witness: /api/authenticate with a stored vector of two components,
\* ended by the ValueError of the comparison.
C9_LegacyVectorFault ==
    \E s \in Slots :
        /\ LengthsDiffer(s, "authenticate")
        /\ slot[s].req.stored_emb = LegacyVec
        /\ slot[s].resp.detail =
               << "Authentication failed", "Incompatible dimension for X and Y matrices" >>

\* The outcome of a response: what the client can tell apart.
Outcome(resp) == << resp.status, resp.detail >>

\* Task s shows the response to a verification request for an account that
\* exists and has no stored embedding.
MissingEnrollment(s, op) ==
    /\ slot[s].pc = "done"
    /\ slot[s].op = op
    /\ "video" \notin DOMAIN slot[s].req
    /\ LET name == IF op = "login_visual" THEN slot[s].req.username
                   ELSE IF get_current_user(slot[s].req.authorization).ok
                   THEN get_current_user(slot[s].req.authorization).val
                   ELSE "nobody"
       IN  /\ name \in Usernames
           /\ users[name] # NoRow
           /\ ~Truthy(users[name].embedding)

\* C10: at either verification endpoint, a request for an account without a
\* stored embedding runs no check and ends in an outcome that differs from
\* the outcome for an unknown user and for an unknown challenge id, and, at
\* /api/authenticate, from a missing or invalid token.
C10_MissingEnrollmentDistinguished ==
    \A s \in Slots :
        /\ MissingEnrollment(s, "authenticate") =>
              /\ slot[s].resp.ran = << >>
              /\ slot[s].resp.flow_calls = 0
              /\ Outcome(slot[s].resp) \notin
                     { Outcome(get_current_user(NoHeader).resp),
                       Outcome(get_current_user(ForgedToken).resp),
                       Outcome(Http(400, "Invalid challenge ID")) }
        /\ MissingEnrollment(s, "login_visual") =>
              /\ slot[s].resp.ran = << >>
              /\ slot[s].resp.flow_calls = 0
              /\ Outcome(slot[s].resp) \notin
                     { Outcome(login_visual_begin(EmptyDb, slot[s].req.username,
                                                  slot[s].req.challenge_id).resp),
                       Outcome(Http(400, "Invalid challenge ID")) }


\* The cosine similarity a verification call computed, as [num, den].
SimilarityOf(req) ==
    compute_similarity(req.stored_emb,
                       get_average_embedding(FramesOf(req).val)).val

\* Task s shows a /api/login/visual response of a call that reached the
\* comparison of the two vectors and could make it.
LoginCompared(s) ==
    /\ Verified(s, "login_visual")
    /\ Len(slot[s].resp.ran) = 3
    /\ slot[s].resp.status # 500

\* C11 (as amended): the similarity verdict passes exactly when the cosine
\* similarity itself is at least 0.60 (0.60 included); the score reported is
\* that similarity rounded to four decimals, so a passing verdict reports at
\* least 0.60 and a report below 0.60 never passes.  /api/login/visual,
\* when it reaches the comparison, issues its token by the same rule.
C11_PassIffSimilarityReachesThreshold ==
    \A s \in Slots :
        /\ AuthResult(s) =>
              LET sim == SimilarityOf(slot[s].req)
                  v   == slot[s].resp.details.similarity
              IN  /\ v.passed <=> sim.num * 10000 >= SIMILARITY_THRESHOLD * sim.den
                  /\ v.score = Round4(sim)
                  /\ v.threshold = SIMILARITY_THRESHOLD
                  /\ v.passed => v.score >= v.threshold
                  /\ v.score < v.threshold => ~v.passed
        /\ LoginCompared(s) =>
              LET sim == SimilarityOf(slot[s].req)
              IN  slot[s].resp.token # None
                      <=> sim.num * 10000 >= SIMILARITY_THRESHOLD * sim.den

\* C11 as stated: the verdict passes exactly when the reported score is at
\* least the reported threshold.
C11_PassIffReportedScoreReachesThreshold ==
    \A s \in Slots :
        AuthResult(s) =>
            LET v == slot[s].resp.details.similarity
            IN  v.passed <=> v.score >= v.threshold

\* C11 witness: a similarity of exactly 0.60 passes (Scenario E).
C11_ExactlyThresholdPasses ==
    \E s \in Slots :
        /\ AuthResult(s)
        /\ SimilarityOf(slot[s].req).num * 10000
               = SIMILARITY_THRESHOLD * SimilarityOf(slot[s].req).den
        /\ slot[s].resp.details.similarity.passed
        /\ slot[s].resp.details.similarity.score = SIMILARITY_THRESHOLD

\* The response is a successful visual verification.
VerificationSucceeded(done) ==
    \/ done.op = "authenticate" /\ done.resp.status = 200 /\ done.resp.authenticated
    \/ done.op = "login_visual" /\ TokenIssued(done.resp)

\* C17: once /api/revoke has completed for an account, no visual verification
\* for it succeeds until a new enrollment is stored, calls already awaiting
\* their video included: whenever /api/authenticate completes with
\* authenticated = true or /api/login/visual completes with a token, the
\* account holds a stored embedding at that moment.
C17_NoSuccessWhileRevoked ==
    [][ \A s \in Slots :
            (/\ Completes(s)
             /\ slot'[s].op \in { "authenticate", "login_visual" }
             /\ VerificationSucceeded(slot'[s]))
            => get_embedding(users', Subject(slot'[s])) # None ]_vars

\* C16: for the same account state, challenge id and video, /api/login/visual
\* issues a login token if and only if /api/authenticate returns
\* authenticated = true; a request login_visual refuses before reading the
\* video is refused by authenticate as well, and no token is issued for an
\* input authenticate rejects or faults on.
C16_TokenIffAuthenticated ==
    \A s \in Slots : slot[s].pc = "done" =>
        LET req  == slot[s].req
            resp == slot[s].resp
        IN  /\ (slot[s].op = "login_visual" /\ "video" \in DOMAIN req) =>
                    \A uuid \in Uuids :
                        LET a == authenticate_try(req.stored_emb, req.challenge,
                                                  req.video, uuid)
                        IN  TokenIssued(resp) <=> (a.status = 200 /\ a.authenticated)
            /\ (slot[s].op = "login_visual" /\ "video" \notin DOMAIN req) =>
                    /\ ~TokenIssued(resp)
                    /\ users[req.username] # NoRow =>
                            authenticate_begin(users, create_token(req.username),
                                               req.challenge_id).pc = "done"
            /\ (slot[s].op = "authenticate" /\ "video" \in DOMAIN req) =>
                    ((resp.status = 200 /\ resp.authenticated) <=>
                        TokenIssued(login_visual_try(req.username, req.stored_emb,
                                                     req.challenge, req.video)))
            /\ (slot[s].op = "authenticate" /\ "video" \notin DOMAIN req
                    /\ get_current_user(req.authorization).ok) =>
                    login_visual_begin(users, get_current_user(req.authorization).val,
                                       req.challenge_id).pc = "done"

\* A visual login accepted on a similarity of exactly the threshold.
C16_TokenIssuedAtThreshold ==
    \E s \in Slots :
        /\ Verified(s, "login_visual")
        /\ TokenIssued(slot[s].resp)
        /\ slot[s].req.video.obj = "key_tilt"

\* The stages named by the lines of an evidence log, in order.
StagesOf(auth_log) == [k \in 1..Len(auth_log) |-> auth_log[k].stage]

\* C15: every result of /api/authenticate, accepted or rejected, carries an
\* evidence log of exactly five lines, in the order frame extraction,
\* liveness, direction, similarity, final result, and the final line says
\* AUTHENTICATED exactly when the authenticated flag is set.
C15_EvidenceLogFiveStages ==
    \A s \in Slots : AuthResult(s) =>
        LET resp     == slot[s].resp
            auth_log == resp.details.auth_log
        IN  /\ StagesOf(auth_log) =
                    << "frames", "liveness", "direction", "similarity", "result" >>
            /\ auth_log[5].text = (IF resp.authenticated THEN "AUTHENTICATED" ELSE "REJECTED")
            /\ auth_log[5].text = resp.message

\* A rejected result that failed two checks or more, with its five lines.
C15_RejectedResultWithFullLog ==
    \E s \in Slots :
        /\ AuthResult(s)
        /\ ~slot[s].resp.authenticated
        /\ Len(slot[s].resp.details.auth_log) = 5
        /\ Len(slot[s].resp.details.auth_log[5].reasons) >= 2

(***************************************************************************)
(* extract_frames applied directly to a video                              *)
(* probe holds the video and the number of frames asked for, then the      *)
(* result.  The container reports the number of frames the decoder can     *)
(* read, or reports none (0).                                              *)
(***************************************************************************)
MaxTotal == 14

InitExtract ==
    /\ users = EmptyDb
    /\ tokens = {}
    /\ slot = [s \in Slots |-> Idle]
    /\ \E total \in 0..MaxTotal, n_frames \in 2..N_FRAMES :
          \E count \in { 0, total } :
              probe = [video |-> Video(TRUE, count, total, "right", "key", FALSE),
                       n_frames |-> n_frames, result |-> None]

ApplyExtract ==
    /\ probe.result = None
    /\ probe' = [probe EXCEPT !.result = extract_frames(probe.video, probe.n_frames)]
    /\ UNCHANGED << users, tokens, slot >>

NextExtract == ApplyExtract

SpecExtract == InitExtract /\ [][NextExtract]_vars

\* The indices, in the video, of the frames returned.
ReturnedIndices == [k \in 1..Len(probe.result.val) |-> probe.result.val[k].idx]

\* C14: extract_frames over a video of total decodable frames raises when
\* total = 0, returns every frame once and in order when 0 < total <= n, and
\* returns the n frames at round(i * (total - 1) / (n - 1)), i = 0..n-1, when
\* total > n.
C14_AllFramesOrRoundedSample ==
    (probe # None /\ probe.result # None) =>
        LET total == probe.video.total
            n     == probe.n_frames
        IN  IF total = 0 THEN ~probe.result.ok
            ELSE /\ probe.result.ok
                 /\ ReturnedIndices =
                        IF total <= n THEN [k \in 1..total |-> k - 1]
                        ELSE [k \in 1..n |-> RoundHalfEven((k - 1) * (total - 1), n - 1)]

(***************************************************************************)
(* The classifiers applied directly to a frame sequence                    *)
(* probe holds the frames and the expected direction given, then the       *)
(* verdicts of check_liveness and check_challenge_direction and the        *)
(* decision /api/authenticate takes from them.                             *)
(***************************************************************************)
MaxProbeFrames == 4

Directions == { CHALLENGES[i].expected_direction : i \in 1..Len(CHALLENGES) }

\* k frames of one motion profile, each frame repeated `copies` times.
ProbeFrames(k, motion, copies) ==
    [i \in 1..k |-> [idx |-> (i - 1) \div copies, motion |-> motion, obj |-> "key"]]

InitClassify ==
    /\ users = EmptyDb
    /\ tokens = {}
    /\ slot = [s \in Slots |-> Idle]
    /\ \E k \in 0..MaxProbeFrames, motion \in MotionProfiles, copies \in 1..2,
          expected \in Directions :
          probe = [frames |-> ProbeFrames(k, motion, copies), expected |-> expected,
                   liveness |-> None, direction |-> None, decision |-> None]

ApplyLiveness ==
    /\ probe.liveness = None
    /\ probe' = [probe EXCEPT
                    !.liveness = check_liveness(probe.frames, LIVENESS_THRESHOLD)]
    /\ UNCHANGED << users, tokens, slot >>

ApplyDirection ==
    /\ probe.direction = None
    /\ probe' = [probe EXCEPT
                    !.direction = check_challenge_direction(probe.frames, probe.expected,
                                                            DIRECTION_THRESHOLD)]
    /\ UNCHANGED << users, tokens, slot >>

ApplyDecision ==
    /\ probe.liveness # None /\ probe.direction # None /\ probe.decision = None
    /\ \E similarity_pass \in BOOLEAN :
          probe' = [probe EXCEPT !.decision =
                       [similarity_pass |-> similarity_pass,
                        authenticated |->
                            Authenticated(probe.liveness, probe.direction, similarity_pass)]]
    /\ UNCHANGED << users, tokens, slot >>

NextClassify == ApplyLiveness \/ ApplyDirection \/ ApplyDecision

SpecClassify == InitClassify /\ [][NextClassify]_vars

(***************************************************************************)
(* Properties of the classifiers (under SpecClassify)                      *)
(***************************************************************************)
\* The five candidate scores of the probe's frames, as numerators over .n
ProbeInfo == detect_dominant_direction(compute_optical_flow(probe.frames))
ProbeScores == DirectionScores(ProbeInfo)
ProbeMag == compute_motion_magnitude(compute_optical_flow(probe.frames))

DirectionApplied == probe # None /\ probe.direction # None
LivenessApplied == probe # None /\ probe.liveness # None

\* C2: the direction verdict is matched exactly when the confidence (the
\* largest candidate score) exceeds the direction threshold, whatever the
\* expected direction is; a strong motion in another direction still matches.
C2_MatchIffConfidenceAboveThreshold ==
    DirectionApplied =>
        (probe.direction.direction_match
            <=> /\ Len(probe.frames) >= 2
                /\ \E k \in DOMAIN ProbeScores :
                       ProbeScores[k] > DIRECTION_THRESHOLD * ProbeInfo.n)

\* C2 witness: "right" detected with a confidence above the threshold against
\* the expected "rotation", matched under the leniency reason.
C2_LeniencyCase ==
    /\ DirectionApplied
    /\ probe.expected = "rotation"
    /\ probe.direction.detected_direction = "right"
    /\ probe.direction.confidence = 5000
    /\ probe.direction.direction_match
    /\ probe.direction.reason.text = "accepted with MVP leniency"

\* Position of a direction in an order of the five candidates.
IndexIn(order, d) == CHOOSE i \in 1..Len(order) : order[i] = d

\* d is a candidate of maximal score, and the earliest such in order.
FirstMaximal(order, d) ==
    /\ \E i \in 1..Len(order) : order[i] = d
    /\ \A j \in 1..Len(order) : ProbeScores[order[j]] <= ProbeScores[d]
    /\ \A j \in 1..(IndexIn(order, d) - 1) : ProbeScores[order[j]] < ProbeScores[d]

\* C3 (as amended): the detected direction has the maximum score, ties going
\* to the earliest of rotation, zoom_in, zoom_out, left, right; the reported
\* confidence is that maximum rounded to three decimals.
C3_ArgmaxInDictOrder ==
    (DirectionApplied /\ Len(probe.frames) >= 2) =>
        /\ FirstMaximal(<< "rotation", "zoom_in", "zoom_out", "left", "right" >>,
                        probe.direction.detected_direction)
        /\ probe.direction.confidence =
               Round3(ProbeScores[probe.direction.detected_direction], ProbeInfo.n)

\* C3 as stated: ties go to the earliest of rotation, zoom_in, left, zoom_out,
\* right, and the confidence (as reported, to three decimals) is the maximum
\* score.
C3_ArgmaxInStatedOrder ==
    (DirectionApplied /\ Len(probe.frames) >= 2) =>
        /\ FirstMaximal(<< "rotation", "zoom_in", "left", "zoom_out", "right" >>,
                        probe.direction.detected_direction)
        /\ probe.direction.confidence =
               Round3(ProbeScores[probe.direction.detected_direction], ProbeInfo.n)

\* C3 witness: left and zoom_out share the maximum, zoom_out is detected.
C3_TieLeftZoomOut ==
    /\ DirectionApplied
    /\ Len(probe.frames) >= 2
    /\ ProbeScores.left = ProbeScores.zoom_out
    /\ ProbeScores.left > 0
    /\ \A k \in DOMAIN ProbeScores : ProbeScores[k] <= ProbeScores.left
    /\ probe.direction.detected_direction = "zoom_out"

\* C4 (as amended): with two frames or more, isLive holds exactly when the
\* mean magnitude itself reaches the threshold; the reported motionScore is
\* that mean rounded to three decimals, so a live verdict reports at least
\* the threshold and a report below the threshold is never live.
C4_LiveIffMeanReachesThreshold ==
    (LivenessApplied /\ Len(probe.frames) >= 2) =>
        /\ probe.liveness.is_live
               <=> ProbeMag.num >= LIVENESS_THRESHOLD * ProbeMag.den
        /\ probe.liveness.motion_score = Round3(ProbeMag.num, ProbeMag.den)
        /\ probe.liveness.is_live => probe.liveness.motion_score >= LIVENESS_THRESHOLD
        /\ probe.liveness.motion_score < LIVENESS_THRESHOLD => ~probe.liveness.is_live

\* C4 as stated: isLive holds exactly when the reported motionScore reaches
\* the threshold.
C4_LiveIffReportedScoreReachesThreshold ==
    (LivenessApplied /\ Len(probe.frames) >= 2) =>
        (probe.liveness.is_live <=> probe.liveness.motion_score >= LIVENESS_THRESHOLD)

\* C4 witness: a mean of 1.4996 is reported as 1.5 and is not live.
C4_RoundedUpToThreshold ==
    /\ LivenessApplied
    /\ Len(probe.frames) >= 2
    /\ ProbeMag.num = 14996 * ProbeMag.den
    /\ probe.liveness.motion_score = LIVENESS_THRESHOLD
    /\ ~probe.liveness.is_live

\* C5: for fewer than two frames both classifiers return their negative
\* verdict (not live with score 0; not matched, "unknown", confidence 0)
\* without computing any optical flow, and the decision is not authenticated.
C5_FewFramesNegative ==
    (probe # None /\ Len(probe.frames) < 2) =>
        /\ probe.liveness # None =>
              /\ ~probe.liveness.is_live
              /\ probe.liveness.motion_score = 0
              /\ probe.liveness.flow_calls = 0
        /\ probe.direction # None =>
              /\ ~probe.direction.direction_match
              /\ probe.direction.detected_direction = "unknown"
              /\ probe.direction.confidence = 0
              /\ probe.direction.flow_calls = 0
        /\ probe.decision # None => ~probe.decision.authenticated

\* C5 witness: one frame, both classifiers applied, a passing similarity, and
\* the decision taken.
C5_OneFrameDecided ==
    /\ probe # None
    /\ Len(probe.frames) = 1
    /\ probe.liveness # None
    /\ probe.direction # None
    /\ probe.decision # None
    /\ probe.decision.similarity_pass


=============================================================================
